---------------------------- MODULE Spec2Model ----------------------------
(***************************************************************************)
(* beekeeper: four solvers for the Spelling Bee puzzle (src/src/lib.rs)    *)
(* and the driver that builds them and queries them (src/src/main.rs).     *)
(*                                                                         *)
(* Representation.                                                         *)
(*   char    a Unicode code point (a natural number): 'a' = 97 .. 'z' =    *)
(*           122, 'A' = 65, U+00E9 = 233.                                  *)
(*   String  the sequence of its chars.  String::len() is the length of    *)
(*           the UTF-8 encoding in BYTES (StrLen), chars() walks the code  *)
(*           points, and the order of Strings is the lexicographic order   *)
(*           of the code points.                                           *)
(*   u32     a bit mask is the set of the positions (0..31) of its 1 bits: *)
(*           TLC's integers are 32 bit signed and cannot hold !mask.       *)
(*           1 << n is {n}, | is \cup, & is \cap, ! is the complement in   *)
(*           0..31, and "!= 0" is "# {}".  The code does no arithmetic on  *)
(*           masks, so this is exact.                                      *)
(*   Vec<T>  a sequence.   HashMap<char, T>  a function on a set of chars. *)
(***************************************************************************)
EXTENDS Naturals, Sequences, FiniteSets, TLC

VARIABLES
    dictionary,   \* the word list the driver loaded (load_dictionary)
    chunk_size,   \* the block size handed to BitmaskBlockSolver::new
    naive,        \* NaiveSolver         { words }
    trie,         \* TrieSolver          { dictionary: TrieNode }
    bitmask,      \* BitmaskSolver       { bitmasks }
    block,        \* BitmaskBlockSolver  { blocks }
    puzzle,       \* the Puzzle of the current round of queries
    result,       \* what each solver's solve returned for `puzzle`
    pc,           \* the driver's position
    first         \* history: the first completed round of queries

vars == <<dictionary, chunk_size, naive, trie, bitmask, block, puzzle, result, pc, first>>

-----------------------------------------------------------------------------
(* Bounds and input domains *)

\* The longest dictionary the driver loads.
MaxDict == 2

\* The largest block size handed to BitmaskBlockSolver::new.
MaxChunk == 2

\* The longest dictionary and the largest block size of the construction runs.
MaxBuildDict == 3
MaxBuildChunk == 3

\* Words must be at least 4 characters long to be valid answers.
MIN_LENGTH == 4

\* Puzzle.outer_letters is a [char; 6].
NUM_OUTER == 6

\* The characters of the inputs: 'a', 'b', 'A' and U+00E9 (two bytes in UTF-8).
Chars == {97, 98, 65, 233}

\* The dictionary entries the driver may load.
Vocabulary ==
    { <<97, 98, 97>>,           \* "aba"    three characters
      <<97, 98, 97, 98>>,       \* "abab"
      <<98, 97, 98, 97>>,       \* "baba"   the letters of "abab", permuted
      <<97, 98, 97, 98, 97>>,   \* "ababa"  has "abab" as a prefix
      <<97, 97, 97, 97>>,       \* "aaaa"
      <<97, 233, 97>> }         \* 'a', U+00E9, 'a': three characters, four bytes

RECURSIVE SeqsUpTo(_, _)
SeqsUpTo(S, n) ==
    IF n = 0 THEN {<<>>}
    ELSE LET shorter == SeqsUpTo(S, n - 1)
         IN shorter \cup {Append(s, x) : s \in shorter, x \in S}

\* A dictionary is any sequence of entries, repetitions included.
Dictionaries == SeqsUpTo(Vocabulary, MaxDict)

\* Outer letters that occur in no dictionary entry: 'u' .. 'z', and six times 'z'.
FillDistinct == <<117, 118, 119, 120, 121, 122>>
FillSame == <<122, 122, 122, 122, 122, 122>>

\* The first outer letters of a puzzle: none, one or two of Chars.
OuterPrefixes == {<<>>} \cup {<<c>> : c \in Chars} \cup {<<c, d>> : c, d \in Chars}

OuterArray(prefix, fill) ==
    [i \in 1..NUM_OUTER |-> IF i <= Len(prefix) THEN prefix[i] ELSE fill[i]]

\* struct Puzzle { center_letter: char, outer_letters: [char; 6] }; nothing
\* validates that the letters are distinct or lower case.
Puzzles ==
    { [center_letter |-> c, outer_letters |-> OuterArray(p, f)] :
        c \in Chars, p \in OuterPrefixes, f \in {FillDistinct, FillSame} }

\* The value of `puzzle` before the driver has loaded one.
NoPuzzle == [center_letter |-> 0, outer_letters |-> [i \in 1..NUM_OUTER |-> 0]]

-----------------------------------------------------------------------------
(* Strings and vectors *)

\* The UTF-8 length of one char.
Utf8Len(c) == IF c < 128 THEN 1 ELSE IF c < 2048 THEN 2 ELSE IF c < 65536 THEN 3 ELSE 4

\* String::len(): the length in bytes.
RECURSIVE StrLen(_)
StrLen(w) == IF w = <<>> THEN 0 ELSE Utf8Len(Head(w)) + StrLen(Tail(w))

\* String's Ord: lexicographic.
RECURSIVE StrLess(_, _)
StrLess(u, v) ==
    IF v = <<>> THEN FALSE
    ELSE IF u = <<>> THEN TRUE
    ELSE IF Head(u) # Head(v) THEN Head(u) < Head(v)
    ELSE StrLess(Tail(u), Tail(v))

Range(s) == {s[i] : i \in DOMAIN s}

\* Vec<char>::sort: by code point.
RECURSIVE InsertChar(_, _)
InsertChar(s, c) ==
    IF s = <<>> THEN <<c>>
    ELSE IF c < Head(s) THEN <<c>> \o s
    ELSE <<Head(s)>> \o InsertChar(Tail(s), c)

RECURSIVE SortChars(_)
SortChars(s) ==
    IF s = <<>> THEN <<>>
    ELSE InsertChar(SortChars(SubSeq(s, 1, Len(s) - 1)), s[Len(s)])

\* InsertString with the comparison turned around (a descending sort).
RECURSIVE InsertStringDescending(_, _)
InsertStringDescending(s, w) ==
    IF s = <<>> THEN <<w>>
    ELSE IF StrLess(Head(s), w) THEN <<w>> \o s
    ELSE <<Head(s)>> \o InsertStringDescending(Tail(s), w)

\* Vec<String>::sort: by String's Ord.  Each element goes after the elements
\* that are not greater, so equal elements keep their order (a stable sort).
RECURSIVE InsertString(_, _)
InsertString(s, w) ==
    IF s = <<>> THEN <<w>>
    ELSE IF StrLess(w, Head(s)) THEN <<w>> \o s
    ELSE <<Head(s)>> \o InsertString(Tail(s), w)

RECURSIVE SortStrings(_)
SortStrings(s) ==
    IF s = <<>> THEN <<>>
    ELSE InsertString(SortStrings(SubSeq(s, 1, Len(s) - 1)), s[Len(s)])

\* Vec::dedup: removes consecutive repeated elements.
RECURSIVE Dedup(_)
Dedup(s) ==
    IF Len(s) <= 1 THEN s
    ELSE IF s[1] = s[2] THEN Dedup(Tail(s))
    ELSE <<s[1]>> \o Dedup(Tail(s))

-----------------------------------------------------------------------------
(* NaiveSolver *)

\* NaiveSolver::new: keeps the words with len() >= MIN_LENGTH, in order.
NaiveSolverNew(word_list) ==
    [words |-> SelectSeq(word_list, LAMBDA w : StrLen(w) >= MIN_LENGTH)]

\* OuterContains with the first element skipped (a scan that starts at index 1).
OuterContainsFromSecond(pz, c) == \E i \in 2..NUM_OUTER : pz.outer_letters[i] = c

\* [char; 6]::contains
OuterContains(pz, c) == \E i \in 1..NUM_OUTER : pz.outer_letters[i] = c

\* NaiveSolver::word_is_valid: the loop over word.chars() from char i on, with
\* the early `return false` on a char that is neither center nor outer.
RECURSIVE WordIsValidFrom(_, _, _, _)
WordIsValidFrom(pz, word, i, has_center) ==
    IF i > Len(word) THEN has_center
    ELSE IF word[i] = pz.center_letter THEN WordIsValidFrom(pz, word, i + 1, TRUE)
    ELSE IF ~OuterContains(pz, word[i]) THEN FALSE
    ELSE WordIsValidFrom(pz, word, i + 1, has_center)

word_is_valid(pz, word) == WordIsValidFrom(pz, word, 1, FALSE)

\* NaiveSolver::solve
NaiveSolve(solver, pz) ==
    SelectSeq(solver.words,
              LAMBDA word : ~(StrLen(word) < MIN_LENGTH) /\ word_is_valid(pz, word))

-----------------------------------------------------------------------------
(* TrieSolver *)

\* HashMap::new / with_capacity: no entries.
NoChildren == [c \in {} |-> FALSE]

\* TrieNode::new
TrieNodeNew(is_word) == [is_word |-> is_word, children |-> NoChildren]

\* HashMap::insert
MapInsert(m, k, v) == [x \in (DOMAIN m) \cup {k} |-> IF x = k THEN v ELSE m[x]]

\* TrieAdd that puts a new node in the place of an existing child where the
\* word ends (children.insert(first_char, TrieNode::new(true))).
RECURSIVE TrieAddOverwriting(_, _)
TrieAddOverwriting(node, word) ==
    LET first_char == Head(word)
        rest == Tail(word)
    IN IF first_char \in DOMAIN node.children /\ StrLen(rest) > 0
       THEN [node EXCEPT !.children =
                MapInsert(node.children, first_char,
                          TrieAddOverwriting(node.children[first_char], rest))]
       ELSE LET fresh == TrieNodeNew(StrLen(rest) = 0)
                child == IF StrLen(rest) > 0 THEN TrieAddOverwriting(fresh, rest) ELSE fresh
            IN [node EXCEPT !.children = MapInsert(node.children, first_char, child)]

\* TrieNode::add.  word.remove(0) takes the first char off; the driver never
\* hands it an empty word (TrieSolver::new filters on len() >= MIN_LENGTH).
RECURSIVE TrieAdd(_, _)
TrieAdd(node, word) ==
    LET first_char == Head(word)
        rest == Tail(word)
    IN IF first_char \in DOMAIN node.children
       THEN LET child == node.children[first_char]
                updated == IF StrLen(rest) = 0
                           THEN [child EXCEPT !.is_word = TRUE]
                           ELSE TrieAdd(child, rest)
            IN [node EXCEPT !.children = MapInsert(node.children, first_char, updated)]
       ELSE LET fresh == TrieNodeNew(StrLen(rest) = 0)
                child == IF StrLen(rest) > 0 THEN TrieAdd(fresh, rest) ELSE fresh
            IN [node EXCEPT !.children = MapInsert(node.children, first_char, child)]

\* The loop of TrieSolver::new over the filtered words.
RECURSIVE TrieAddAll(_, _)
TrieAddAll(root, words) ==
    IF words = <<>> THEN root
    ELSE TrieAddAll(TrieAdd(root, Head(words)), Tail(words))

\* TrieSolver::new
TrieSolverNew(word_list) ==
    [dictionary |->
        TrieAddAll(TrieNodeNew(FALSE),
                   SelectSeq(word_list, LAMBDA w : StrLen(w) >= MIN_LENGTH))]

\* TrieNode::find_words; FindOuter is its loop over puzzle.outer_letters from
\* index i on.
RECURSIVE find_words(_, _, _, _)
RECURSIVE FindOuter(_, _, _, _, _)
find_words(node, pz, center_letter_count, path) ==
    LET here == IF center_letter_count > 0 /\ node.is_word THEN <<path>> ELSE <<>>
        via_center ==
            IF pz.center_letter \in DOMAIN node.children
            THEN find_words(node.children[pz.center_letter], pz,
                            center_letter_count + 1, Append(path, pz.center_letter))
            ELSE <<>>
    IN here \o via_center \o FindOuter(node, pz, center_letter_count, path, 1)

FindOuter(node, pz, center_letter_count, path, i) ==
    IF i > NUM_OUTER THEN <<>>
    ELSE LET letter == pz.outer_letters[i]
             child_words ==
                 IF letter \in DOMAIN node.children
                 THEN find_words(node.children[letter], pz, center_letter_count,
                                 Append(path, letter))
                 ELSE <<>>
         IN child_words \o FindOuter(node, pz, center_letter_count, path, i + 1)

\* TrieSolver::solve
TrieSolve(solver, pz) == find_words(solver.dictionary, pz, 0, <<>>)

-----------------------------------------------------------------------------
(* BitmaskSolver *)

\* The bit positions of a u32, and the u32 operators on masks.
Bits == 0..31
Shl1(n) == {n}                   \* 1 << n
BitOr(x, y) == x \cup y          \* x | y
BitAnd(x, y) == x \cap y         \* x & y
BitNot(x) == Bits \ x            \* !x
Zero == {}                       \* 0

\* bitmask_letter with the catch-all arm on the bit of 'z'.
bitmask_letter_catch_all_25(letter) ==
    IF letter >= 97 /\ letter <= 122 THEN {letter - 97} ELSE {25}

\* BitmaskSolver::bitmask_letter: 'a' => 1 << 0, ..., 'z' => 1 << 25, _ => 1 << 26.
bitmask_letter(letter) ==
    IF letter >= 97 /\ letter <= 122 THEN Shl1(letter - 97) ELSE Shl1(26)

\* OrLetters with `mask = ` in the place of `mask |= `.
RECURSIVE OrLettersAssigned(_, _, _)
OrLettersAssigned(chars, i, mask) ==
    IF i > Len(chars) THEN mask
    ELSE OrLettersAssigned(chars, i + 1, bitmask_letter(chars[i]))

\* The loop of bitmask_word: mask |= bitmask_letter(c) for the chars from i on.
RECURSIVE OrLetters(_, _, _)
OrLetters(chars, i, mask) ==
    IF i > Len(chars) THEN mask
    ELSE OrLetters(chars, i + 1, BitOr(mask, bitmask_letter(chars[i])))

\* BitmaskSolver::bitmask_word: collect the chars, sort, dedup, OR the letters.
bitmask_word(word) == OrLetters(Dedup(SortChars(word)), 1, Zero)

\* BitmaskedWord { mask, word }
BitmaskedWord(w) == [mask |-> bitmask_word(w), word |-> w]

\* The loop of BitmaskSolver::new over the dictionary.
RECURSIVE MaskWords(_)
MaskWords(words) ==
    IF words = <<>> THEN <<>>
    ELSE IF StrLen(Head(words)) >= MIN_LENGTH
         THEN <<BitmaskedWord(Head(words))>> \o MaskWords(Tail(words))
         ELSE MaskWords(Tail(words))

\* BitmaskSolver::new
BitmaskSolverNew(dict) == [bitmasks |-> MaskWords(dict)]

\* center_letter_mask of solve
CenterMask(pz) == bitmask_letter(pz.center_letter)

\* forbidden_letter_mask of solve: the center mask ORed with the letter of
\* every outer letter, then inverted.
RECURSIVE AllowedFrom(_, _, _)
AllowedFrom(pz, i, mask) ==
    IF i > NUM_OUTER THEN mask
    ELSE AllowedFrom(pz, i + 1, BitOr(mask, bitmask_letter(pz.outer_letters[i])))

ForbiddenMask(pz) == BitNot(AllowedFrom(pz, 1, CenterMask(pz)))

\* The per-word test of BitmaskSolver::solve and of BitmaskBlock::matches.
MaskMatches(mask, center_letter_mask, forbidden_letter_mask) ==
    /\ BitAnd(mask, center_letter_mask) # Zero
    /\ BitAnd(mask, forbidden_letter_mask) = Zero

\* The words of the masked words that pass the test, in order.
RECURSIVE MatchingWords(_, _, _)
MatchingWords(masked, center_letter_mask, forbidden_letter_mask) ==
    IF masked = <<>> THEN <<>>
    ELSE (IF MaskMatches(Head(masked).mask, center_letter_mask, forbidden_letter_mask)
          THEN <<Head(masked).word>> ELSE <<>>)
         \o MatchingWords(Tail(masked), center_letter_mask, forbidden_letter_mask)

\* BitmaskSolver::solve
BitmaskSolve(solver, pz) ==
    MatchingWords(solver.bitmasks, CenterMask(pz), ForbiddenMask(pz))

-----------------------------------------------------------------------------
(* BitmaskBlockSolver *)

\* Option<T>
None == [some |-> FALSE, value |-> <<>>]
Some(v) == [some |-> TRUE, value |-> v]

\* The loop of BitmaskBlock::new: AND and OR of the word masks.
\* AndMasks with | in the place of &.
RECURSIVE AndMasksWithOr(_, _)
AndMasksWithOr(masked, acc) ==
    IF masked = <<>> THEN acc ELSE AndMasksWithOr(Tail(masked), BitOr(acc, Head(masked).mask))

RECURSIVE AndMasks(_, _)
AndMasks(masked, acc) ==
    IF masked = <<>> THEN acc ELSE AndMasks(Tail(masked), BitAnd(acc, Head(masked).mask))

RECURSIVE OrMasks(_, _)
OrMasks(masked, acc) ==
    IF masked = <<>> THEN acc ELSE OrMasks(Tail(masked), BitOr(acc, Head(masked).mask))

\* BitmaskBlock::new: common_chars_mask starts at !0, missing_chars_mask at 0.
BitmaskBlockNew(words) ==
    LET masked_words == [i \in 1..Len(words) |-> BitmaskedWord(words[i])]
    IN [common_chars_mask |-> AndMasks(masked_words, BitNot(Zero)),
        missing_chars_mask |-> OrMasks(masked_words, Zero),
        words |-> masked_words]

\* Chunks as slice::chunks_exact: a shorter last chunk is left out.
RECURSIVE ChunksExact(_, _)
ChunksExact(s, size) ==
    IF Len(s) < size THEN <<>>
    ELSE <<SubSeq(s, 1, size)>> \o ChunksExact(SubSeq(s, size + 1, Len(s)), size)

\* slice::chunks(chunk_size), for chunk_size > 0: consecutive chunks of
\* chunk_size elements, the last one shorter when the length is no multiple.
RECURSIVE Chunks(_, _)
Chunks(s, size) ==
    IF s = <<>> THEN <<>>
    ELSE IF Len(s) <= size THEN <<s>>
    ELSE <<SubSeq(s, 1, size)>> \o Chunks(SubSeq(s, size + 1, Len(s)), size)

\* BitmaskBlockSolver::new.  dictionary.len() / chunk_size divides by zero and
\* chunks(0) panics: with chunk_size = 0 the constructor panics (None here).
BitmaskBlockSolverNew(dict, size) ==
    IF size = 0 THEN None
    ELSE LET sorted == SortStrings(SelectSeq(dict, LAMBDA w : StrLen(w) >= MIN_LENGTH))
             chunks == Chunks(sorted, size)
         IN Some([blocks |-> [i \in 1..Len(chunks) |-> BitmaskBlockNew(chunks[i])]])

\* BitmaskBlock::matches
BlockMatches(blk, center_letter_mask, forbidden_letter_mask) ==
    IF BitAnd(blk.common_chars_mask, forbidden_letter_mask) # Zero THEN None
    ELSE IF BitAnd(blk.missing_chars_mask, center_letter_mask) = Zero THEN None
    ELSE LET found == MatchingWords(blk.words, center_letter_mask, forbidden_letter_mask)
         IN IF Len(found) = 0 THEN None ELSE Some(found)

\* The loop of BitmaskBlockSolver::solve over the blocks.
RECURSIVE AppendMatches(_, _, _)
AppendMatches(blocks, center_letter_mask, forbidden_letter_mask) ==
    IF blocks = <<>> THEN <<>>
    ELSE LET matches == BlockMatches(Head(blocks), center_letter_mask, forbidden_letter_mask)
         IN (IF matches.some THEN matches.value ELSE <<>>)
            \o AppendMatches(Tail(blocks), center_letter_mask, forbidden_letter_mask)

\* BitmaskBlockSolver::solve
BitmaskBlockSolve(solver, pz) ==
    AppendMatches(solver.blocks, CenterMask(pz), ForbiddenMask(pz))

-----------------------------------------------------------------------------
(* The driver: main builds the four solvers from one dictionary, loads a     *)
(* puzzle and runs every solver on it; a caller may go on with more puzzles. *)

\* `result` before any solver has answered the current puzzle.
NoResult == [naive |-> <<>>, trie |-> <<>>, bitmask |-> <<>>, block |-> <<>>]

\* `first` before a round of queries has completed.  Once a round is kept,
\* `other` tells whether a round with a different puzzle has completed since.
NoFirst == [puzzle |-> NoPuzzle, result |-> NoResult, other |-> FALSE]

Unbuilt ==
    /\ chunk_size = 0
    /\ naive = [words |-> <<>>]
    /\ trie = [dictionary |-> TrieNodeNew(FALSE)]
    /\ bitmask = [bitmasks |-> <<>>]
    /\ block = [blocks |-> <<>>]
    /\ puzzle = NoPuzzle
    /\ result = NoResult
    /\ pc = "new_naive"

Init ==
    /\ dictionary \in Dictionaries
    /\ Unbuilt
    /\ first = NoFirst

\* let naive = NaiveSolver::new(dictionary.clone());
NewNaive ==
    /\ pc = "new_naive"
    /\ naive' = NaiveSolverNew(dictionary)
    /\ pc' = "new_trie"
    /\ UNCHANGED <<dictionary, chunk_size, trie, bitmask, block, puzzle, result, first>>

\* let trie = TrieSolver::new(dictionary.clone());
NewTrie ==
    /\ pc = "new_trie"
    /\ trie' = TrieSolverNew(dictionary)
    /\ pc' = "new_bitmask"
    /\ UNCHANGED <<dictionary, chunk_size, naive, bitmask, block, puzzle, result, first>>

\* let bitmask = BitmaskSolver::new(dictionary.clone());
NewBitmask ==
    /\ pc = "new_bitmask"
    /\ bitmask' = BitmaskSolverNew(dictionary)
    /\ pc' = "new_block"
    /\ UNCHANGED <<dictionary, chunk_size, naive, trie, block, puzzle, result, first>>

\* let bitmask_block = BitmaskBlockSolver::new(dictionary.clone(), size);
\* chunk_size is a usize: any value, 0 included.  A panic ends the program.
NewBitmaskBlock(size) ==
    /\ pc = "new_block"
    /\ chunk_size' = size
    /\ LET built == BitmaskBlockSolverNew(dictionary, size)
       IN IF built.some
          THEN block' = built.value /\ pc' = "ready"
          ELSE block' = block /\ pc' = "panicked"
    /\ UNCHANGED <<dictionary, naive, trie, bitmask, puzzle, result, first>>

\* let puzzle = load_puzzle_from_file(..): any seven chars.
LoadPuzzle(pz) ==
    /\ pc = "ready"
    /\ puzzle' = pz
    /\ result' = NoResult
    /\ pc' = "solve_naive"
    /\ UNCHANGED <<dictionary, chunk_size, naive, trie, bitmask, block, first>>

\* SolveNaive with a solve that drains the word list while it scans it.
SolveNaiveDraining ==
    /\ pc = "solve_naive"
    /\ result' = [result EXCEPT !.naive = NaiveSolve(naive, puzzle)]
    /\ naive' = [words |-> <<>>]
    /\ pc' = "solve_trie"
    /\ UNCHANGED <<dictionary, chunk_size, trie, bitmask, block, puzzle, first>>

\* naive.solve(&puzzle): &self, the solver is only read.
SolveNaive ==
    /\ pc = "solve_naive"
    /\ result' = [result EXCEPT !.naive = NaiveSolve(naive, puzzle)]
    /\ pc' = "solve_trie"
    /\ UNCHANGED <<dictionary, chunk_size, naive, trie, bitmask, block, puzzle, first>>

\* trie.solve(&puzzle)
SolveTrie ==
    /\ pc = "solve_trie"
    /\ result' = [result EXCEPT !.trie = TrieSolve(trie, puzzle)]
    /\ pc' = "solve_bitmask"
    /\ UNCHANGED <<dictionary, chunk_size, naive, trie, bitmask, block, puzzle, first>>

\* bitmask.solve(&puzzle)
SolveBitmask ==
    /\ pc = "solve_bitmask"
    /\ result' = [result EXCEPT !.bitmask = BitmaskSolve(bitmask, puzzle)]
    /\ pc' = "solve_block"
    /\ UNCHANGED <<dictionary, chunk_size, naive, trie, bitmask, block, puzzle, first>>

\* bitmask_block.solve(&puzzle); the round is complete.
SolveBitmaskBlock ==
    /\ pc = "solve_block"
    /\ result' = [result EXCEPT !.block = BitmaskBlockSolve(block, puzzle)]
    /\ pc' = "done"
    /\ UNCHANGED <<dictionary, chunk_size, naive, trie, bitmask, block, puzzle, first>>

\* A caller that keeps the solvers goes on with another puzzle (the benchmark
\* calls solve on the same solvers over and over).  The history keeps the
\* first completed round.
NextPuzzle(pz) ==
    /\ pc = "done"
    /\ first' = IF first = NoFirst
                THEN [puzzle |-> puzzle, result |-> result, other |-> FALSE]
                ELSE [first EXCEPT !.other = @ \/ puzzle # first.puzzle]
    /\ puzzle' = pz
    /\ result' = NoResult
    /\ pc' = "solve_naive"
    /\ UNCHANGED <<dictionary, chunk_size, naive, trie, bitmask, block>>

Next ==
    \/ NewNaive
    \/ NewTrie
    \/ NewBitmask
    \/ \E size \in 0..MaxChunk : NewBitmaskBlock(size)
    \/ \E pz \in Puzzles : LoadPuzzle(pz)
    \/ SolveNaive
    \/ SolveTrie
    \/ SolveBitmask
    \/ SolveBitmaskBlock

Spec == Init /\ [][Next]_vars

\* The word list of the repeated-query runs: every entry of the vocabulary,
\* out of order, one of them twice.
FixtureDictionary ==
    << <<98, 97, 98, 97>>, <<97, 98, 97>>, <<97, 98, 97, 98>>, <<97, 233, 97>>,
       <<97, 98, 97, 98, 97>>, <<97, 97, 97, 97>>, <<97, 98, 97, 98>> >>

InitQueries ==
    /\ dictionary = FixtureDictionary
    /\ Unbuilt
    /\ first = NoFirst

\* The puzzles of the repeated-query runs: at most one outer letter of Chars.
QueryPuzzles == {pz \in Puzzles : pz.outer_letters[2] \notin Chars}

NextQueries ==
    \/ NewNaive
    \/ NewTrie
    \/ NewBitmask
    \/ \E size \in 0..MaxChunk : NewBitmaskBlock(size)
    \/ \E pz \in QueryPuzzles : LoadPuzzle(pz)
    \/ SolveNaive
    \/ SolveTrie
    \/ SolveBitmask
    \/ SolveBitmaskBlock
    \/ \E pz \in QueryPuzzles : NextPuzzle(pz)

SpecQueries == InitQueries /\ [][NextQueries]_vars

\* The construction runs: the solvers are built from a longer word list and
\* with more block sizes, and no puzzle is loaded.
InitBuild ==
    /\ dictionary \in SeqsUpTo(Vocabulary, MaxBuildDict)
    /\ Unbuilt
    /\ first = NoFirst

NextBuild ==
    \/ NewNaive
    \/ NewTrie
    \/ NewBitmask
    \/ \E size \in 0..MaxBuildChunk : NewBitmaskBlock(size)

SpecBuild == InitBuild /\ [][NextBuild]_vars

-----------------------------------------------------------------------------
(* Vocabulary of the properties *)

\* Every solver has answered the current puzzle.
Done == pc = "done"

\* The four solvers exist (BitmaskBlockSolver::new did not panic).
Built == pc \in {"ready", "solve_naive", "solve_trie", "solve_bitmask", "solve_block", "done"}

\* The words that each of the four solvers returned.
Returned ==
    Range(result.naive) \cup Range(result.trie)
        \cup Range(result.bitmask) \cup Range(result.block)

\* How often x occurs in the sequence s.
Count(s, x) == Cardinality({i \in DOMAIN s : s[i] = x})

IsLower(c) == c >= 97 /\ c <= 122

\* The letters of a puzzle.
OuterSet(pz) == Range(pz.outer_letters)
PuzzleLetters(pz) == {pz.center_letter} \cup OuterSet(pz)

-----------------------------------------------------------------------------
(* C1 .. C5: the contract of solve *)

\* C1: for every dictionary, puzzle and block size, the four solvers return the
\* same set of words.
C1_SolversAgree ==
    Done =>
        /\ Range(result.trie) = Range(result.naive)
        /\ Range(result.bitmask) = Range(result.naive)
        /\ Range(result.block) = Range(result.naive)

\* C2: every word that any solver returns contains the center letter.
C2_CenterLetterPresent ==
    Done => \A w \in Returned : puzzle.center_letter \in Range(w)

\* C3: every character of every word that any solver returns is the center
\* letter or an outer letter.
C3_LettersContained ==
    Done => \A w \in Returned : Range(w) \subseteq PuzzleLetters(puzzle)

\* C4: no solver returns a word of fewer than 4 characters.
C4_MinimumLength ==
    Done => \A w \in Returned : Len(w) >= MIN_LENGTH

\* C5: a solver returns a word more than once only if the dictionary holds that
\* word more than once.
C5_DuplicatesOnlyFromDictionary ==
    Done =>
        \A w \in Returned :
            (\/ Count(result.naive, w) > 1
             \/ Count(result.trie, w) > 1
             \/ Count(result.bitmask, w) > 1
             \/ Count(result.block, w) > 1) => Count(dictionary, w) > 1

-----------------------------------------------------------------------------
(* C6: block-size invariance *)

\* BitmaskBlockSolver::new has been called.
BlockAttempted == Built \/ pc = "panicked"

\* C6 as stated: for every dictionary D, the block solvers of block size 1 and
\* of block size |D| are built without failure and return the set of words
\* that BitmaskSolver returns.
C6_AnyDictionary ==
    (BlockAttempted /\ chunk_size \in {1, Len(dictionary)}) =>
        /\ pc # "panicked"
        /\ Done => Range(result.block) = Range(result.bitmask)

\* C6, amended: the same for every dictionary D with at least one entry.
C6_BlockSizeInvariance ==
    (BlockAttempted /\ Len(dictionary) > 0 /\ chunk_size \in {1, Len(dictionary)}) =>
        /\ pc # "panicked"
        /\ Done => Range(result.block) = Range(result.bitmask)

\* A two-entry dictionary in one block of size |D|, both words returned, and
\* the block solver lists them in another order than BitmaskSolver does.
C6_Witness ==
    /\ Done
    /\ Len(dictionary) = 2
    /\ chunk_size = Len(dictionary)
    /\ Len(block.blocks) = 1
    /\ Len(result.block) = 2
    /\ result.block # result.bitmask

-----------------------------------------------------------------------------
(* C7: the reserved bit *)

\* The word holds a character outside 'a'..'z'.
HasOtherChar(w) == \E i \in DOMAIN w : ~IsLower(w[i])

\* Every indexed word with a character outside 'a'..'z' has bit 26 in its mask
\* (looked at when the solvers have been built and after every round).
ReservedBitSet ==
    pc \in {"ready", "done"} =>
        /\ \A i \in DOMAIN bitmask.bitmasks :
              HasOtherChar(bitmask.bitmasks[i].word) => 26 \in bitmask.bitmasks[i].mask
        /\ \A b \in DOMAIN block.blocks : \A i \in DOMAIN block.blocks[b].words :
              HasOtherChar(block.blocks[b].words[i].word)
                  => 26 \in block.blocks[b].words[i].mask

\* C7 as stated: a word with a character outside 'a'..'z' gets bit 26 and is
\* returned by BitmaskSolver and BitmaskBlockSolver for no puzzle at all.
C7_AnyPuzzle ==
    /\ ReservedBitSet
    /\ Done => \A w \in Range(result.bitmask) \cup Range(result.block) : ~HasOtherChar(w)

\* C7, amended: ... for no puzzle whose center and outer letters are all in
\* 'a'..'z'.
C7_ReservedBit ==
    /\ ReservedBitSet
    /\ (Done /\ \A c \in PuzzleLetters(puzzle) : IsLower(c)) =>
            \A w \in Range(result.bitmask) \cup Range(result.block) : ~HasOtherChar(w)

\* A lower-case puzzle, an indexed word that has a character outside 'a'..'z'
\* and otherwise only letters of the puzzle, the center letter among them, and
\* another word that the bitmask solvers do return.
C7_Witness ==
    /\ Done
    /\ \A c \in PuzzleLetters(puzzle) : IsLower(c)
    /\ \E i \in DOMAIN bitmask.bitmasks :
          LET w == bitmask.bitmasks[i].word
          IN /\ HasOtherChar(w)
             /\ puzzle.center_letter \in Range(w)
             /\ \A c \in Range(w) : IsLower(c) => c \in PuzzleLetters(puzzle)
    /\ result.bitmask # <<>>
    /\ result.block # <<>>

-----------------------------------------------------------------------------
(* C8: solve is a read-only query (checked under SpecQueries) *)

-----------------------------------------------------------------------------
(* C9: only the set of letters matters *)

\* The two puzzles have the same center letter and the same set of outer letters.
SameLetters(p, q) ==
    /\ p.center_letter = q.center_letter
    /\ OuterSet(p) = OuterSet(q)

\* The sequences hold the same elements the same number of times.
SameBag(s, u) == \A x \in Range(s) \cup Range(u) : Count(s, x) = Count(u, x)

\* C9: every solver returns the same set of words for two puzzles with the same
\* center letter and the same set of outer letters, whatever the order and the
\* repetitions of the outer letters; when the outer letters are only permuted,
\* the answers differ in nothing but their order.
C9_OnlyTheLetterSetMatters ==
    Done =>
        LET outer == OuterSet(puzzle)
        IN \A q \in Puzzles :
              (q.center_letter = puzzle.center_letter /\ OuterSet(q) = outer) =>
                  /\ Range(NaiveSolve(naive, q)) = Range(result.naive)
                  /\ Range(TrieSolve(trie, q)) = Range(result.trie)
                  /\ Range(BitmaskSolve(bitmask, q)) = Range(result.bitmask)
                  /\ Range(BitmaskBlockSolve(block, q)) = Range(result.block)
                  /\ SameBag(q.outer_letters, puzzle.outer_letters) =>
                        /\ SameBag(NaiveSolve(naive, q), result.naive)
                        /\ SameBag(TrieSolve(trie, q), result.trie)
                        /\ SameBag(BitmaskSolve(bitmask, q), result.bitmask)
                        /\ SameBag(BitmaskBlockSolve(block, q), result.block)

\* A lower-case puzzle that repeats an outer letter of the words and a puzzle
\* with the same letter set that does not, for which TrieSolver returns another sequence
\* (the same words, other multiplicities).
C9_Witness ==
    /\ Done
    /\ \A c \in PuzzleLetters(puzzle) : IsLower(c)
    /\ result.naive # <<>>
    /\ \E q \in Puzzles :
          /\ SameLetters(puzzle, q)
          /\ \E c \in Chars : Count(q.outer_letters, c) = 1 /\ Count(puzzle.outer_letters, c) = 2
          /\ TrieSolve(trie, q) # result.trie

-----------------------------------------------------------------------------
(* C10: the mask of a word *)

\* BitmaskSolver::new has just applied bitmask_word to the dictionary.
Masked == pc = "new_block"

\* C10: two words with the same set of characters have the same mask, the mask
\* of a word is the OR of bitmask_letter over its distinct characters, and
\* bitmask_letter maps the letters 'a'..'z' to distinct single bits of 0..25.
C10_MaskOfTheLetterSet ==
    Masked =>
        /\ \A i, j \in DOMAIN bitmask.bitmasks :
              Range(bitmask.bitmasks[i].word) = Range(bitmask.bitmasks[j].word)
                  => bitmask.bitmasks[i].mask = bitmask.bitmasks[j].mask
        /\ \A i \in DOMAIN bitmask.bitmasks :
              bitmask.bitmasks[i].mask
                  = UNION {bitmask_letter(c) : c \in Range(bitmask.bitmasks[i].word)}
        /\ \A c \in 97..122 : \E n \in 0..25 : bitmask_letter(c) = Shl1(n)
        /\ \A c, d \in 97..122 : c # d => bitmask_letter(c) # bitmask_letter(d)

\* Two indexed words of different lengths with the same two letters, in
\* different orders.
C10_Witness ==
    /\ Masked
    /\ \E i, j \in DOMAIN bitmask.bitmasks :
          LET u == bitmask.bitmasks[i].word
              v == bitmask.bitmasks[j].word
          IN /\ Len(u) # Len(v)
             /\ Head(u) # Head(v)
             /\ Range(u) = Range(v)
             /\ Cardinality(Range(u)) = 2

-----------------------------------------------------------------------------
(* C11: what TrieSolver returns *)

\* The dictionary words of at least 4 characters that are made of the letters
\* of the puzzle and hold its center letter.
Qualifying(dict, pz) ==
    { w \in Range(dict) :
        /\ Len(w) >= MIN_LENGTH
        /\ Range(w) \subseteq PuzzleLetters(pz)
        /\ pz.center_letter \in Range(w) }

\* C11: TrieSolver.solve returns exactly the set of the dictionary words of
\* length >= 4 whose every character is the center letter or an outer letter
\* and that contain the center letter: no word without the center letter, and
\* every qualifying word, also when the center letter is an outer letter too.
C11_TrieReturnsTheQualifyingWords ==
    Done => Range(result.trie) = Qualifying(dictionary, puzzle)

-----------------------------------------------------------------------------
(* C12: pruning a block loses no word *)

\* BitmaskBlock::matches leaves the block on one of its two block-level tests.
Pruned(blk, pz) ==
    \/ BitAnd(blk.common_chars_mask, ForbiddenMask(pz)) # Zero
    \/ BitAnd(blk.missing_chars_mask, CenterMask(pz)) = Zero

\* The words of the blocks, block after block, with their masks.
RECURSIVE BlockWords(_)
BlockWords(blocks) ==
    IF blocks = <<>> THEN <<>> ELSE Head(blocks).words \o BlockWords(Tail(blocks))

\* The indexed word passes the per-word test of the puzzle.
Accepted(mw, pz) ==
    /\ BitAnd(mw.mask, CenterMask(pz)) # Zero
    /\ BitAnd(mw.mask, ForbiddenMask(pz)) = Zero

\* C12: no word of a block that BitmaskBlock::matches rejects on a block-level
\* test passes the per-word test, and BitmaskBlockSolver.solve returns every
\* indexed word that passes the per-word test, as often as it is indexed.
C12_PruningIsSound ==
    Done =>
        /\ \A b \in DOMAIN block.blocks :
              Pruned(block.blocks[b], puzzle) =>
                  \A i \in DOMAIN block.blocks[b].words :
                      ~Accepted(block.blocks[b].words[i], puzzle)
        /\ LET indexed == BlockWords(block.blocks)
           IN \A i \in DOMAIN indexed :
                 Accepted(indexed[i], puzzle) =>
                     Count(result.block, indexed[i].word)
                         = Cardinality({j \in DOMAIN indexed : indexed[j].word = indexed[i].word})

\* A block of two words with different masks that is rejected because both
\* hold a letter the puzzle lacks, although one of them holds the center letter.
C12_Witness ==
    /\ Done
    /\ \E b \in DOMAIN block.blocks :
          LET blk == block.blocks[b]
          IN /\ Len(blk.words) = 2
             /\ blk.words[1].mask # blk.words[2].mask
             /\ BitAnd(blk.common_chars_mask, ForbiddenMask(puzzle)) # Zero
             /\ BitAnd(blk.missing_chars_mask, CenterMask(puzzle)) # Zero

-----------------------------------------------------------------------------
(* C13: the trie holds the inserted words (checked under SpecBuild) *)

\* The paths from the node to its descendants with is_word = true.
RECURSIVE WordPaths(_)
WordPaths(node) ==
    (IF node.is_word THEN {<<>>} ELSE {})
        \cup UNION { {<<c>> \o path : path \in WordPaths(node.children[c])} :
                        c \in DOMAIN node.children }

\* The words that TrieSolver::new hands to TrieNode::add.
Inserted(dict) == {w \in Range(dict) : StrLen(w) >= MIN_LENGTH}

\* The orders in which the entries of a word list can come.
Reorderings(dict) ==
    LET n == Len(dict)
    IN { [i \in 1..n |-> dict[f[i]]] : f \in {g \in [1..n -> 1..n] : Range(g) = 1..n} }

\* u is a proper prefix of w.
ProperPrefix(u, w) == Len(u) < Len(w) /\ SubSeq(w, 1, Len(u)) = u

\* TrieSolver::new has just built the trie.
TrieBuilt == pc = "new_bitmask"

\* C13: after TrieSolver::new the paths from the root to the nodes with
\* is_word = true are exactly the inserted words; the trie is the same for
\* every order of insertion, and inserting the words once more changes nothing.
C13_TrieHoldsTheInsertedWords ==
    TrieBuilt =>
        /\ WordPaths(trie.dictionary) = Inserted(dictionary)
        /\ \A other \in Reorderings(dictionary) : TrieSolverNew(other) = trie
        /\ TrieSolverNew(dictionary \o dictionary) = trie

\* A word was inserted before one of its proper prefixes and once more after
\* it: the prefix ends on an existing node that has children.
C13_Witness ==
    /\ TrieBuilt
    /\ Len(dictionary) = 3
    /\ ProperPrefix(dictionary[2], dictionary[1])
    /\ dictionary[3] = dictionary[1]
    /\ {dictionary[1], dictionary[2]} \subseteq WordPaths(trie.dictionary)

-----------------------------------------------------------------------------
(* C14: the blocks of BitmaskBlockSolver::new (checked under SpecBuild) *)

\* BitmaskBlockSolver::new has returned.
BlocksBuilt == pc = "ready"

\* The words of the blocks, block after block.
IndexedWords == [i \in DOMAIN BlockWords(block.blocks) |-> BlockWords(block.blocks)[i].word]

\* The sequence of strings is in lexicographically non-decreasing order.
Sorted(s) == \A i, j \in DOMAIN s : i < j => ~StrLess(s[j], s[i])

\* C14: for a positive chunk_size the blocks, one after the other, are the
\* sorted list of the dictionary words of length >= 4; no block is empty, every
\* block but the last holds chunk_size words (the last at most chunk_size), and
\* in every block common_chars_mask is the AND and missing_chars_mask the OR of
\* the masks of its words.
C14_BlocksOfTheSortedWords ==
    BlocksBuilt =>
        /\ Sorted(IndexedWords)
        /\ SameBag(IndexedWords, SelectSeq(dictionary, LAMBDA w : Len(w) >= MIN_LENGTH))
        /\ \A b \in DOMAIN block.blocks :
              LET blk == block.blocks[b]
              IN /\ Len(blk.words) > 0
                 /\ Len(blk.words) <= chunk_size
                 /\ b < Len(block.blocks) => Len(blk.words) = chunk_size
                 /\ blk.common_chars_mask
                        = {n \in Bits : \A i \in DOMAIN blk.words : n \in blk.words[i].mask}
                 /\ blk.missing_chars_mask
                        = {n \in Bits : \E i \in DOMAIN blk.words : n \in blk.words[i].mask}
                 /\ \A i \in DOMAIN blk.words :
                       /\ blk.words[i].mask = bitmask_word(blk.words[i].word)
                       /\ blk.common_chars_mask \subseteq blk.words[i].mask
                       /\ blk.words[i].mask \subseteq blk.missing_chars_mask

-----------------------------------------------------------------------------
(* C15: the order of the answers of the two bitmask solvers *)

\* C15: BitmaskBlockSolver.solve returns its words in lexicographically
\* non-decreasing order, the same words as often as BitmaskSolver.solve returns
\* them, and BitmaskSolver.solve lists the matching entries of the dictionary
\* in the order of the dictionary.
C15_OrderOfTheAnswers ==
    Done =>
        /\ Sorted(result.block)
        /\ SameBag(result.block, result.bitmask)
        /\ result.bitmask = SelectSeq(dictionary, LAMBDA w : w \in Range(result.bitmask))

\* Both entries of a dictionary that is not in lexicographic order match, each
\* in a block of its own: BitmaskSolver returns them in the order of the
\* dictionary and BitmaskBlockSolver in the other order.
C15_Witness ==
    /\ Done
    /\ chunk_size = 1
    /\ Len(block.blocks) = 2
    /\ Len(result.bitmask) = 2
    /\ StrLess(result.bitmask[2], result.bitmask[1])
    /\ result.block = <<result.bitmask[2], result.bitmask[1]>>

=============================================================================
